---- MODULE Spec2Model ----
(***************************************************************************)
(* Table-mode view of a compliance assessment                              *)
(* (frontend/src/routes/(app)/(third-party)/compliance-assessments/        *)
(*  [id=uuid]/table-mode/+page.svelte).                                    *)
(*                                                                         *)
(* The state is the component's state: the page data (data.requirements,   *)
(* data.requirement_assessments), the props, questionnaireMode, the        *)
(* pending createdEvidence slot, the addedEvidence key, the modal store    *)
(* and the persistence requests handed to fetch.  Every event handler and  *)
(* the reactive block are one action each.                                 *)
(***************************************************************************)
EXTENDS Integers, Sequences, FiniteSets, TLC

\* ------------------------------------------------------------------ bounds
\* Requests handed to fetch in one behaviour.
MaxRequests == 2
\* Evidences created by the evidence form in one behaviour.
MaxCreated == 2
\* Modals waiting in the modal store.
MaxModals == 1

\* ------------------------------------------------------- JavaScript values
Null == "null"
Undefined == "undefined"
\* The default of update's fourth parameter: question = ''.
NoQuestion == [given |-> FALSE, urn |-> Undefined]
\* A question object handed to update (update reads its urn only).
Question(q) == [given |-> TRUE, urn |-> q.urn]

\* JavaScript truthiness of a string-or-nullish value.
Truthy(v) == v # Null /\ v # Undefined /\ v # ""

\* ------------------------------------------------------------ the options
status_options == <<"to_do", "in_progress", "in_review", "done">>
result_options ==
  <<"not_assessed", "non_compliant", "partially_compliant", "compliant", "not_applicable">>

Range(s) == {s[k] : k \in DOMAIN s}
Last(s) == s[Len(s)]

\* ----------------------------------------------------------- the page data
\* Texts a user types in a textarea or date input.
Texts == {"", "note"}
\* Identifiers an evidence form result may name in `requirements`.
TargetIds == {"q1", "q2", "r1", "r2", "zz"}
\* Evidences the initial payload already holds.
InitialEvidences == <<[id |-> 1, str |-> "Audit.pdf"], [id |-> 2, str |-> "Scan.pdf"]>>
\* The id the remote store gives the n-th evidence created during the view.
NewEvidenceId(n) == Len(InitialEvidences) + n

\* data.requirements: the requirement definitions, which requirementHashmap
\* indexes by id and title looks up by requirementAssessment.requirement.  The
\* merge and the removal read and write the evidences of these records.
InitialRequirements ==
  << [id |-> "q1", display_short |-> "A.1", name |-> "Access control",
      evidences |-> InitialEvidences],
     [id |-> "q2", display_short |-> "", name |-> "Backup",
      evidences |-> SubSeq(InitialEvidences, 1, 1)] >>

InitialQuestions ==
  << [urn |-> "u1", type |-> "unique_choice", options |-> <<"yes", "no">>, answer |-> Null],
     [urn |-> "u2", type |-> "text", options |-> <<>>, answer |-> ""] >>

\* data.requirement_assessments: the records the page renders and edits, each
\* pointing to its requirement (the second to one the index does not hold).
InitialAssessments ==
  << [id |-> "r1", requirement |-> "q1", assessable |-> TRUE,
      display_short |-> Undefined, name |-> Undefined,
      status |-> "to_do", result |-> "not_assessed",
      answer |-> [questions |-> InitialQuestions],
      observation |-> "", observationBuffer |-> "",
      evidences |-> InitialEvidences],
     [id |-> "r2", requirement |-> "q9", assessable |-> TRUE,
      display_short |-> Undefined, name |-> "Backup (local)",
      status |-> "in_progress", result |-> "compliant",
      answer |-> [questions |-> <<>>],
      observation |-> "note", observationBuffer |-> "note",
      evidences |-> SubSeq(InitialEvidences, 1, 1)] >>

VARIABLES
  requirements,            \* data.requirements
  requirement_assessments, \* data.requirement_assessments
  shallow,                 \* prop
  questionnaireOnly,       \* prop
  assessmentOnly,          \* prop
  is_third_party,          \* $page.data.user.is_third_party
  questionnaireMode,
  createdEvidence,         \* the pending created-evidence slot
  addedEvidence,           \* the {#key} counter
  modalStore,              \* modals triggered and not yet closed
  requests,                \* bodies handed to fetch, in the order of the calls
  nCreated,                \* evidences the remote store has created so far
  thrown,                  \* an uncaught TypeError has been raised
  titles,                  \* the titles rendered by {title(requirementAssessment)}
  net,                     \* the remote store and the requests that have settled
  last                     \* the last handler that ran, with its arguments

vars ==
  << requirements, requirement_assessments, shallow, questionnaireOnly, assessmentOnly,
     is_third_party, questionnaireMode, createdEvidence, addedEvidence, modalStore,
     requests, nCreated, thrown, titles, net, last >>

props == << shallow, questionnaireOnly, assessmentOnly, is_third_party >>

Assessments == DOMAIN requirement_assessments

\* ---------------------------------------------------------- array helpers
\* Array.prototype.find on an array of records with an id: the index of the
\* first element whose id is `id`, 0 when there is none (find gives undefined).
find(array, id) ==
  IF \E k \in DOMAIN array : array[k].id = id
    THEN CHOOSE k \in DOMAIN array :
           array[k].id = id /\ \A h \in 1..(k - 1) : array[h].id # id
    ELSE 0

\* Array.prototype.findIndex((q) => q.urn === urn): 1-based, 0 for JavaScript's -1.
findIndex(questions, urn) ==
  IF \E k \in DOMAIN questions : questions[k].urn = urn
    THEN CHOOSE k \in DOMAIN questions :
           questions[k].urn = urn /\ \A h \in 1..(k - 1) : questions[h].urn # urn
    ELSE 0

\* Array.prototype.filter((evidence) => evidence.id !== id).
RECURSIVE filter(_, _)
filter(evidences, id) ==
  IF evidences = <<>> THEN <<>>
  ELSE IF Head(evidences).id # id
    THEN <<Head(evidences)>> \o filter(Tail(evidences), id)
    ELSE filter(Tail(evidences), id)

\* ------------------------------------------------------------ Record Index
\* requirementHashmap = Object.fromEntries(data.requirements.map(r => [r.id, r])):
\* the index in data.requirements of the entry kept for `id` (for a repeated id
\* fromEntries keeps the later one), 0 when the index has no such key.
requirementHashmap(id) ==
  IF \E k \in DOMAIN requirements : requirements[k].id = id
    THEN CHOOSE k \in DOMAIN requirements :
           requirements[k].id = id
           /\ \A h \in (k + 1)..Len(requirements) : requirements[h].id # id
    ELSE 0

\* title with the short-name test dropped: always the long name.
title_NoShort(requirementAssessment) ==
  LET k == requirementHashmap(requirementAssessment.requirement)
      requirement == IF k # 0 THEN requirements[k] ELSE requirementAssessment
  IN IF requirement.name # Null /\ requirement.name # Undefined
       THEN requirement.name ELSE ""

\* function title(requirementAssessment)
title(requirementAssessment) ==
  LET k == requirementHashmap(requirementAssessment.requirement)
      \* requirementHashmap[...] ?? requirementAssessment
      requirement ==
        IF k # 0
          THEN [display_short |-> requirements[k].display_short,
                name |-> requirements[k].name]
          ELSE [display_short |-> requirementAssessment.display_short,
                name |-> requirementAssessment.name]
  IN IF Truthy(requirement.display_short)
       THEN requirement.display_short
       \* requirement.name ?? ''
       ELSE IF requirement.name # Null /\ requirement.name # Undefined
              THEN requirement.name
              ELSE ""

\* ----------------------------------------------------------- Field Mutator
\* The body of the request: { id: requirementAssessment.id, [field]: value }.
FormData(id, field, value) == [id |-> id] @@ (field :> value)

\* update that also assigns requirementAssessment[field] = value.
update_Assigns(requirementAssessment, field, value, question) ==
  IF question.given
    THEN LET questions == requirementAssessment.answer.questions
             questionIndex == findIndex(questions, question.urn)
         IN IF questionIndex = 0
              THEN [ra |-> requirementAssessment, threw |-> TRUE, sent |-> <<>>]
              ELSE LET ra1 == [requirementAssessment EXCEPT
                                 !.answer.questions[questionIndex].answer = value]
                   IN [ra |-> ra1, threw |-> ~ra1.assessable,
                       sent |-> IF ra1.assessable
                                  THEN <<FormData(ra1.id, field, ra1.answer)>> ELSE <<>>]
    ELSE [ra |-> [requirementAssessment EXCEPT ![field] = value],
          threw |-> ~requirementAssessment.assessable,
          sent |-> IF requirementAssessment.assessable
                     THEN <<FormData(requirementAssessment.id, field, value)>> ELSE <<>>]

\* update that builds the body before it assigns the answer: the request
\* carries the bundle as it was.
update_Stale(requirementAssessment, field, value, question) ==
  IF question.given
    THEN LET questions == requirementAssessment.answer.questions
             questionIndex == findIndex(questions, question.urn)
         IN IF questionIndex = 0
              THEN [ra |-> requirementAssessment, threw |-> TRUE, sent |-> <<>>]
              ELSE LET ra1 == [requirementAssessment EXCEPT
                                 !.answer.questions[questionIndex].answer = value]
                   IN [ra |-> ra1, threw |-> ~ra1.assessable,
                       sent |-> IF ra1.assessable
                                  THEN <<FormData(ra1.id, field,
                                                  requirementAssessment.answer)>>
                                  ELSE <<>>]
    ELSE [ra |-> requirementAssessment,
          threw |-> ~requirementAssessment.assessable,
          sent |-> IF requirementAssessment.assessable
                     THEN <<FormData(requirementAssessment.id, field, value)>> ELSE <<>>]

\* function update(requirementAssessment, field, value, question = '').
\* The result is the assessment as the call leaves it, whether the call threw a
\* TypeError, and the bodies it handed to fetch (none or one).
\*   - question given: the answer of the first question with question.urn is
\*     set, and value becomes the whole answer bundle; questions[-1] is
\*     undefined when no urn matches, and the assignment throws;
\*   - document.getElementById(`tableModeForm-${id}`) is null unless the
\*     assessment is assessable (the form is rendered under
\*     {#if requirementAssessment.assessable}), and form.action throws then;
\*   - JSON.stringify runs inside the call: the body is the value at that moment.
update(requirementAssessment, field, value, question) ==
  IF question.given
    THEN LET questions == requirementAssessment.answer.questions
             questionIndex == findIndex(questions, question.urn)
         IN IF questionIndex = 0
              THEN [ra |-> requirementAssessment, threw |-> TRUE, sent |-> <<>>]
              ELSE LET ra1 == [requirementAssessment EXCEPT
                                 !.answer.questions[questionIndex].answer = value]
                   IN [ra |-> ra1, threw |-> ~ra1.assessable,
                       sent |-> IF ra1.assessable
                                  THEN <<FormData(ra1.id, field, ra1.answer)>> ELSE <<>>]
    ELSE [ra |-> requirementAssessment,
          threw |-> ~requirementAssessment.assessable,
          sent |-> IF requirementAssessment.assessable
                     THEN <<FormData(requirementAssessment.id, field, value)>> ELSE <<>>]

\* ------------------------------------------------ Toggle/Selection Reducer
\* The reducer with its test inverted.
nextValue_Inverted(current, clicked, defaultValue) ==
  IF current # clicked THEN defaultValue ELSE clicked

\* The reducer without the deselect branch: a plain radio group.
nextValue_NoToggle(current, clicked, defaultValue) == clicked

\* The reducer of the answer radio used for every field: a second click on
\* the current option clears the field.
nextValue_Null(current, clicked, defaultValue) ==
  IF current = clicked THEN Null ELSE clicked

\* current === option.id ? defaultValue : option.id, the ternary of the three
\* RadioItem click handlers.
nextValue(current, clicked, defaultValue) ==
  IF current = clicked THEN defaultValue ELSE clicked

\* ----------------------------------------------------------- Mode Selector
\* The precedence with the two overrides swapped.
InitialMode_Swapped(qOnly, aOnly, thirdParty) ==
  IF aOnly THEN FALSE ELSE IF qOnly THEN TRUE ELSE IF thirdParty THEN TRUE ELSE FALSE

\* let questionnaireMode = questionnaireOnly ? true : assessmentOnly ? false
\*   : $page.data.user.is_third_party ? true : false
InitialMode(qOnly, aOnly, thirdParty) ==
  IF qOnly THEN TRUE ELSE IF aOnly THEN FALSE ELSE IF thirdParty THEN TRUE ELSE FALSE

\* A mode switch that is rendered whatever the overrides.
SwitchRendered_Always == TRUE

\* {#if !(questionnaireOnly ? !assessmentOnly : assessmentOnly)}: the mode
\* switch is rendered.
SwitchRendered ==
  ~(IF questionnaireOnly THEN ~assessmentOnly ELSE assessmentOnly)

\* --------------------------------------------------------- the remote store
\* The fields of an assessment that an edit persists.
Fields == {"status", "result", "answer", "observation"}

\* The record the remote store keeps for an assessment of the payload.
RemoteOf(requirementAssessment) ==
  [f \in Fields \cup {"id"} |-> requirementAssessment[f]]

\* The partial update the endpoint of an assessment applies for a body
\* { id, [field]: value }: the fields of the body replace the record's.
Patch(record, body) ==
  [f \in DOMAIN record |-> IF f \in DOMAIN body THEN body[f] ELSE record[f]]

\* ------------------------------------------------------------------- state
\* The handler that ran last: its name, the assessment (or identifier) it was
\* given, the field, the option or text, the value the field held before, and
\* the evidence identifier.
Ran(op, ra, field, arg, before, ev) ==
  [op |-> op, ra |-> ra, field |-> field, arg |-> arg, before |-> before, ev |-> ev]

\* The state after construction, for the given page data and props.
InitWith(reqs, ras, sh, qOnly, aOnly, thirdParty) ==
  /\ requirements = reqs
  /\ requirement_assessments = ras
  /\ shallow = sh
  /\ questionnaireOnly = qOnly
  /\ assessmentOnly = aOnly
  /\ is_third_party = thirdParty
  /\ questionnaireMode = InitialMode(qOnly, aOnly, thirdParty)
  /\ createdEvidence = <<>>
  /\ addedEvidence = 0
  /\ modalStore = <<>>
  /\ requests = <<>>
  /\ nCreated = 0
  /\ thrown = FALSE
  /\ titles = [i \in DOMAIN ras |-> Undefined]
  /\ net = [remote |-> [i \in DOMAIN ras |-> RemoteOf(ras[i])], settled |-> {}]
  /\ last = Ran("init", "", "", "", "", 0)

Init ==
  \E sh \in BOOLEAN, qOnly \in BOOLEAN, aOnly \in BOOLEAN, thirdParty \in BOOLEAN :
    InitWith(InitialRequirements, InitialAssessments, sh, qOnly, aOnly, thirdParty)

\* A handler whose request overtakes the ones issued before it.
Updated_Prepend(i, u) ==
  /\ requirement_assessments' = [requirement_assessments EXCEPT ![i] = u.ra]
  /\ requests' = u.sent \o requests
  /\ thrown' = (thrown \/ u.threw)

\* What a handler that called update leaves behind.
Updated(i, u) ==
  /\ requirement_assessments' = [requirement_assessments EXCEPT ![i] = u.ra]
  /\ requests' = requests \o u.sent
  /\ thrown' = (thrown \/ u.threw)

CanSend == Len(requests) < MaxRequests

\* ---------------------------------------------------------------- handlers
\* status RadioItem on:click
ClickStatus(i, option) ==
  LET requirementAssessment == requirement_assessments[i]
      newStatus == nextValue(requirementAssessment.status, option, "to_do")
      assigned == [requirementAssessment EXCEPT !.status = newStatus]
  IN /\ requirementAssessment.assessable /\ ~questionnaireMode /\ CanSend
     /\ Updated(i, update(assigned, "status", newStatus, NoQuestion))
     /\ last' = Ran("status", requirementAssessment.id, "status", option,
                    requirementAssessment.status, 0)
     /\ UNCHANGED << requirements, props, questionnaireMode, createdEvidence,
                     addedEvidence, modalStore, nCreated, titles, net >>

\* result RadioItem on:click
ClickResult(i, option) ==
  LET requirementAssessment == requirement_assessments[i]
      newResult == nextValue(requirementAssessment.result, option, "not_assessed")
      assigned == [requirementAssessment EXCEPT !.result = newResult]
  IN /\ requirementAssessment.assessable /\ ~questionnaireMode /\ CanSend
     /\ Updated(i, update(assigned, "result", newResult, NoQuestion))
     /\ last' = Ran("result", requirementAssessment.id, "result", option,
                    requirementAssessment.result, 0)
     /\ UNCHANGED << requirements, props, questionnaireMode, createdEvidence,
                     addedEvidence, modalStore, nCreated, titles, net >>

\* The answer controls are rendered: the assessment is assessable, has an
\* answer bundle, and the view is not shallow.
AnswerEditable(i, j) ==
  /\ requirement_assessments[i].assessable
  /\ ~shallow
  /\ j \in DOMAIN requirement_assessments[i].answer.questions

\* question RadioItem on:click (unique_choice)
ClickAnswer(i, j, option) ==
  LET requirementAssessment == requirement_assessments[i]
      question == requirementAssessment.answer.questions[j]
      newAnswer == nextValue(question.answer, option, Null)
      assigned == [requirementAssessment EXCEPT !.answer.questions[j].answer = newAnswer]
  IN /\ AnswerEditable(i, j) /\ CanSend
     /\ question.type = "unique_choice"
     /\ option \in Range(question.options)
     /\ Updated(i, update(assigned, "answer", newAnswer, Question(question)))
     /\ last' = Ran("answer", requirementAssessment.id, question.urn, option,
                    question.answer, 0)
     /\ UNCHANGED << requirements, props, questionnaireMode, createdEvidence,
                     addedEvidence, modalStore, nCreated, titles, net >>

\* date input / textarea: bind:value stores the text, on:change calls update.
ChangeAnswer(i, j, text) ==
  LET requirementAssessment == requirement_assessments[i]
      question == requirementAssessment.answer.questions[j]
      bound == [requirementAssessment EXCEPT !.answer.questions[j].answer = text]
  IN /\ AnswerEditable(i, j) /\ CanSend
     /\ question.type # "unique_choice"
     /\ text # question.answer
     /\ Updated(i, update(bound, "answer", text, Question(question)))
     /\ last' = Ran("change", requirementAssessment.id, question.urn, text,
                    question.answer, 0)
     /\ UNCHANGED << requirements, props, questionnaireMode, createdEvidence,
                     addedEvidence, modalStore, nCreated, titles, net >>

\* The observation textarea and its buttons are rendered.
ObservationEditable(i) ==
  requirement_assessments[i].assessable /\ ~shallow

\* observation textarea, bind:value
InputObservation(i, text) ==
  LET requirementAssessment == requirement_assessments[i]
  IN /\ ObservationEditable(i)
     /\ text # requirementAssessment.observation
     /\ requirement_assessments' =
          [requirement_assessments EXCEPT ![i].observation = text]
     /\ last' = Ran("input", requirementAssessment.id, "observation", text,
                    requirementAssessment.observation, 0)
     /\ UNCHANGED << requirements, props, questionnaireMode, createdEvidence,
                     addedEvidence, modalStore, requests, nCreated, thrown, titles, net >>

\* A save button that persists the text and leaves the buffer alone.
SaveObservation_NoBuffer(i) ==
  LET requirementAssessment == requirement_assessments[i]
      u == update(requirementAssessment, "observation",
                  requirementAssessment.observation, NoQuestion)
  IN /\ ObservationEditable(i) /\ CanSend
     /\ requirementAssessment.observationBuffer # requirementAssessment.observation
     /\ Updated(i, u)
     /\ last' = Ran("save", requirementAssessment.id, "observation",
                    requirementAssessment.observation,
                    requirementAssessment.observationBuffer, 0)
     /\ UNCHANGED << requirements, props, questionnaireMode, createdEvidence,
                     addedEvidence, modalStore, nCreated, titles, net >>

\* observation save button on:click
SaveObservation(i) ==
  LET requirementAssessment == requirement_assessments[i]
      u == update(requirementAssessment, "observation",
                  requirementAssessment.observation, NoQuestion)
      saved == [u.ra EXCEPT !.observationBuffer = u.ra.observation]
  IN /\ ObservationEditable(i) /\ CanSend
     /\ requirementAssessment.observationBuffer # requirementAssessment.observation
     /\ Updated(i, [u EXCEPT !.ra = IF u.threw THEN u.ra ELSE saved])
     /\ last' = Ran("save", requirementAssessment.id, "observation",
                    requirementAssessment.observation,
                    requirementAssessment.observationBuffer, 0)
     /\ UNCHANGED << requirements, props, questionnaireMode, createdEvidence,
                     addedEvidence, modalStore, nCreated, titles, net >>

\* observation cancel button on:click
CancelObservation(i) ==
  LET requirementAssessment == requirement_assessments[i]
  IN /\ ObservationEditable(i)
     /\ requirementAssessment.observationBuffer # requirementAssessment.observation
     /\ requirement_assessments' =
          [requirement_assessments EXCEPT
             ![i].observation = requirementAssessment.observationBuffer]
     /\ last' = Ran("cancel", requirementAssessment.id, "observation", "",
                    requirementAssessment.observation, 0)
     /\ UNCHANGED << requirements, props, questionnaireMode, createdEvidence,
                     addedEvidence, modalStore, requests, nCreated, thrown, titles, net >>

\* A switch that derives the mode from the overrides again.
ToggleMode_Rederive ==
  /\ SwitchRendered
  /\ questionnaireMode' = InitialMode(questionnaireOnly, assessmentOnly, is_third_party)
  /\ last' = Ran("toggle", "", "", "", "", 0)
  /\ UNCHANGED << requirements, requirement_assessments, props, createdEvidence,
                  addedEvidence, modalStore, requests, nCreated, thrown, titles, net >>

\* SlideToggle questionnaireToggle on:click
ToggleMode ==
  /\ SwitchRendered
  /\ questionnaireMode' = ~questionnaireMode
  /\ last' = Ran("toggle", "", "", "", "", 0)
  /\ UNCHANGED << requirements, requirement_assessments, props, createdEvidence,
                  addedEvidence, modalStore, requests, nCreated, thrown, titles, net >>

\* ------------------------------------------------------------------ modals
\* function modalEvidenceCreateForm(createform), from the add-evidence button
ClickAddEvidence(i) ==
  LET requirementAssessment == requirement_assessments[i]
  IN /\ requirementAssessment.assessable /\ ~shallow
     /\ Len(modalStore) < MaxModals
     /\ modalStore' = Append(modalStore, [ref |-> "CreateModal", id |-> 0])
     /\ last' = Ran("add", requirementAssessment.id, "", "", "", 0)
     /\ UNCHANGED << requirements, requirement_assessments, props, questionnaireMode,
                     createdEvidence, addedEvidence, requests, nCreated, thrown, titles, net >>

\* function modalConfirmDelete(id, name): the modal it triggers and
\* data.requirements as its forEach leaves it.
modalConfirmDelete(id) ==
  [modal |-> [ref |-> "DeleteConfirmModal", id |-> id],
   requirements |->
     [k \in DOMAIN requirements |->
        [requirements[k] EXCEPT !.evidences = filter(requirements[k].evidences, id)]]]

\* The x button of evidence k in the evidence list of assessment i.
ClickDeleteEvidence(i, k) ==
  LET requirementAssessment == requirement_assessments[i]
      evidence == requirementAssessment.evidences[k]
      done == modalConfirmDelete(evidence.id)
  IN /\ requirementAssessment.assessable /\ ~shallow
     /\ k \in DOMAIN requirementAssessment.evidences
     /\ Len(modalStore) < MaxModals
     /\ modalStore' = Append(modalStore, done.modal)
     /\ requirements' = done.requirements
     /\ last' = Ran("delete", requirementAssessment.id, "evidences", "", "", evidence.id)
     /\ UNCHANGED << requirement_assessments, props, questionnaireMode, createdEvidence,
                     addedEvidence, requests, nCreated, thrown, titles, net >>

\* The modal on top is closed (accepted, cancelled or dismissed).
CloseModal ==
  /\ modalStore # <<>>
  /\ modalStore' = Tail(modalStore)
  /\ last' = Ran("close", "", "", "", "", 0)
  /\ UNCHANGED << requirements, requirement_assessments, props, questionnaireMode,
                  createdEvidence, addedEvidence, requests, nCreated, thrown, titles, net >>

\* ---------------------------------------------------------- Evidence Merge
\* Lists of identifiers a created evidence may carry in `requirements`.
RequirementLists ==
  {<<>>} \cup {<<t>> : t \in TargetIds} \cup {<<t, "q2">> : t \in TargetIds}

\* createdEvidence.requirements[0]
First(list) == IF list = <<>> THEN Undefined ELSE list[1]

\* A merge that pushes the record twice.
Merge_Twice(evidence) ==
  LET k == find(requirements, First(evidence.requirements))
      record == [str |-> evidence.name, id |-> evidence.id]
  IN IF k = 0
       THEN [threw |-> TRUE, requirements |-> requirements,
             createdEvidence |-> <<evidence>>, addedEvidence |-> addedEvidence]
       ELSE [threw |-> FALSE,
             requirements |->
               [requirements EXCEPT ![k].evidences = Append(Append(@, record), record)],
             createdEvidence |-> <<>>,
             addedEvidence |-> 1]

\* The body of $: if (createdEvidence && shallow) { ... } for a pending
\* evidence: find over data.requirements, push, clear the slot, and
\* addedEvidence = +1.  find gives undefined when no id matches and
\* undefined.evidences throws before anything is changed.
Merge(evidence) ==
  LET k == find(requirements, First(evidence.requirements))
  IN IF k = 0
       THEN [threw |-> TRUE, requirements |-> requirements,
             createdEvidence |-> <<evidence>>, addedEvidence |-> addedEvidence]
       ELSE [threw |-> FALSE,
             requirements |->
               [requirements EXCEPT ![k].evidences =
                  Append(@, [str |-> evidence.name, id |-> evidence.id])],
             createdEvidence |-> <<>>,
             addedEvidence |-> 1]

\* The form prop is set to the result of the evidence creation:
\* $: createdEvidence = form?.createdEvidence, then the merge block.
ReceiveCreatedEvidence(list) ==
  LET evidence == [id |-> NewEvidenceId(nCreated + 1), name |-> "Policy.pdf",
                   requirements |-> list]
      merged == Merge(evidence)
  IN /\ nCreated < MaxCreated
     /\ nCreated' = nCreated + 1
     /\ IF shallow
          THEN /\ requirements' = merged.requirements
               /\ createdEvidence' = merged.createdEvidence
               /\ addedEvidence' = merged.addedEvidence
               /\ thrown' = (thrown \/ merged.threw)
          ELSE /\ createdEvidence' = <<evidence>>
               /\ UNCHANGED << requirements, addedEvidence, thrown >>
     /\ last' = Ran("created", First(list), "evidences", "", "", evidence.id)
     /\ UNCHANGED << requirement_assessments, props, questionnaireMode, modalStore,
                     requests, titles, net >>

\* The form prop is set to a result without createdEvidence (or to null).
ReceiveOtherForm ==
  /\ createdEvidence # <<>>
  /\ createdEvidence' = <<>>
  /\ last' = Ran("form", "", "", "", "", 0)
  /\ UNCHANGED << requirements, requirement_assessments, props, questionnaireMode,
                  addedEvidence, modalStore, requests, nCreated, thrown, titles, net >>

\* ------------------------------------------------------------------ the view
\* The edit handlers and the mode switch: they read and write
\* data.requirement_assessments, questionnaireMode and the requests.
Next ==
  \/ \E i \in Assessments, option \in Range(status_options) : ClickStatus(i, option)
  \/ \E i \in Assessments, option \in Range(result_options) : ClickResult(i, option)
  \/ \E i \in Assessments, j \in 1..2, option \in {"yes", "no"} : ClickAnswer(i, j, option)
  \/ \E i \in Assessments, j \in 1..2, text \in Texts : ChangeAnswer(i, j, text)
  \/ \E i \in Assessments, text \in Texts : InputObservation(i, text)
  \/ \E i \in Assessments : SaveObservation(i)
  \/ \E i \in Assessments : CancelObservation(i)
  \/ ToggleMode

\* The evidence handlers and the reactive merge: they read and write
\* data.requirements, the createdEvidence slot, addedEvidence and the modal
\* store, none of which an edit handler touches.
NextEvidence ==
  \/ \E i \in Assessments : ClickAddEvidence(i)
  \/ \E i \in Assessments, k \in 1..Len(InitialEvidences) : ClickDeleteEvidence(i, k)
  \/ CloseModal
  \/ \E list \in RequirementLists : ReceiveCreatedEvidence(list)
  \/ ReceiveOtherForm

Spec == Init /\ [][Next]_vars

SpecEvidence == Init /\ [][NextEvidence]_vars

\* The whole view: edits and evidence handling interleaved.
SpecView == Init /\ [][Next \/ NextEvidence]_vars

\* ------------------------------------------------- update called on its own
\* Values handed to update for a field.
FieldValues(field) ==
  CASE field = "status" -> Range(status_options)
    [] field = "result" -> Range(result_options)
    [] field = "observation" -> Texts
    [] OTHER -> {}

\* Answers handed to update together with a question.
AnswerValues == {Null, "yes", "no", "note"}
\* Urns of the question objects handed to update ("u9" is no question's urn).
Urns == {"u1", "u2", "u9"}

\* update(requirementAssessment, field, value): a call without a question.
CallUpdate(i, field, value) ==
  LET requirementAssessment == requirement_assessments[i]
  IN /\ CanSend
     /\ Updated(i, update(requirementAssessment, field, value, NoQuestion))
     /\ last' = Ran("update", requirementAssessment.id, field, value,
                    requirementAssessment[field], 0)
     /\ UNCHANGED << requirements, props, questionnaireMode, createdEvidence,
                     addedEvidence, modalStore, nCreated, titles, net >>

\* update(requirementAssessment, 'answer', value, question)
CallUpdateQuestion(i, urn, value) ==
  LET requirementAssessment == requirement_assessments[i]
  IN /\ CanSend
     /\ Updated(i, update(requirementAssessment, "answer", value,
                          [given |-> TRUE, urn |-> urn]))
     /\ last' = Ran("updateq", requirementAssessment.id, urn, value, "", 0)
     /\ UNCHANGED << requirements, props, questionnaireMode, createdEvidence,
                     addedEvidence, modalStore, nCreated, titles, net >>

\* The page data with other values loaded into the first assessment.
InitUpdate ==
  \E status \in Range(status_options), answer \in {Null, "yes"} :
    InitWith(InitialRequirements,
             [InitialAssessments EXCEPT ![1].status = status,
                                        ![1].answer.questions[1].answer = answer],
             FALSE, FALSE, FALSE, FALSE)

NextUpdate ==
  \/ \E i \in Assessments, field \in {"status", "result", "observation"} :
       \E value \in FieldValues(field) : CallUpdate(i, field, value)
  \/ \E i \in Assessments, urn \in Urns, value \in AnswerValues :
       CallUpdateQuestion(i, urn, value)

SpecUpdate == InitUpdate /\ [][NextUpdate]_vars

\* --------------------------------------------------------- title rendering
\* Values of display_short and name in the payload: a missing key, null, the
\* empty string, a text.
ShortNames == {Undefined, Null, "", "A.1"}
LongNames == {Undefined, Null, "", "Access control"}

\* {title(requirementAssessment)} of the i-th block of the page.
RenderTitle(i) ==
  /\ titles' = [titles EXCEPT ![i] = title(requirement_assessments[i])]
  /\ last' = Ran("title", requirement_assessments[i].id, "", "", "", 0)
  /\ UNCHANGED << requirements, requirement_assessments, props, questionnaireMode,
                  createdEvidence, addedEvidence, modalStore, requests, nCreated, thrown, net >>

\* Page data whose first requirement and first assessment carry any names,
\* the assessment pointing to a requirement of the index or to none.
InitTitle ==
  \E short \in ShortNames, long \in LongNames, ownShort \in ShortNames,
     ownLong \in LongNames, requirement \in {"q1", "q9"} :
    InitWith([InitialRequirements EXCEPT ![1].display_short = short, ![1].name = long],
             [InitialAssessments EXCEPT ![1].display_short = ownShort,
                                        ![1].name = ownLong,
                                        ![1].requirement = requirement],
             FALSE, FALSE, FALSE, FALSE)

NextTitle == \E i \in Assessments : RenderTitle(i)

SpecTitle == InitTitle /\ [][NextTitle]_vars

\* ------------------------------------------------- requests on the network
\* The requests handed to fetch that have not settled yet.
Pending ==
  {k \in DOMAIN requests : \A s \in net.settled : s.k # k}

\* The field a request body carries besides the id.
FieldOf(body) == CHOOSE f \in DOMAIN body : f # "id"

\* A page that reloads the assessments from the remote store when a request
\* has been fulfilled.
Settle_Refresh(assessments, remote, ok) ==
  IF ok
    THEN [i \in DOMAIN assessments |->
            [f \in DOMAIN assessments[i] |->
               IF f \in Fields THEN remote[i][f] ELSE assessments[i][f]]]
    ELSE assessments

\* A page that rolls the assessments back to the remote values when a request
\* has been rejected.
Settle_Rollback(assessments, remote, ok) ==
  IF ok
    THEN assessments
    ELSE [i \in DOMAIN assessments |->
            [f \in DOMAIN assessments[i] |->
               IF f \in Fields THEN remote[i][f] ELSE assessments[i][f]]]

\* data.requirement_assessments once a request has settled.  update calls
\* fetch(form.action, {...}) as a statement: the promise is dropped, there is
\* no await, then or catch, so no code of the page runs when the request is
\* fulfilled or rejected.
Settle(assessments, remote, ok) == assessments

\* The remote store processes pending request k: the record of the body's
\* assessment is patched.  Any pending request may be the next one processed.
Fulfil(k) ==
  LET body == requests[k]
      remote == [i \in DOMAIN net.remote |->
                   IF net.remote[i].id = body.id
                     THEN Patch(net.remote[i], body) ELSE net.remote[i]]
  IN /\ k \in Pending
     /\ net' = [remote |-> remote, settled |-> net.settled \cup {[k |-> k, ok |-> TRUE]}]
     /\ requirement_assessments' = Settle(requirement_assessments, remote, TRUE)
     /\ last' = Ran("fulfil", body.id, FieldOf(body), "", "", k)
     /\ UNCHANGED << requirements, props, questionnaireMode, createdEvidence,
                     addedEvidence, modalStore, requests, nCreated, thrown, titles >>

\* Pending request k fails (the network drops it, or the endpoint rejects it):
\* the remote store keeps what it has.
Reject(k) ==
  LET body == requests[k]
  IN /\ k \in Pending
     /\ net' = [net EXCEPT !.settled = @ \cup {[k |-> k, ok |-> FALSE]}]
     /\ requirement_assessments' = Settle(requirement_assessments, net.remote, FALSE)
     /\ last' = Ran("reject", body.id, FieldOf(body), "", "", k)
     /\ UNCHANGED << requirements, props, questionnaireMode, createdEvidence,
                     addedEvidence, modalStore, requests, nCreated, thrown, titles >>

\* The page of an assessor (no override, not shallow).
InitNet ==
  InitWith(InitialRequirements, InitialAssessments, FALSE, FALSE, FALSE, FALSE)

\* Status clicks, answer clicks and observation saves, and the requests they
\* issued settling in any order.
NextNet ==
  \/ \E i \in Assessments, option \in Range(status_options) : ClickStatus(i, option)
  \/ \E i \in Assessments, j \in 1..2, option \in {"yes", "no"} : ClickAnswer(i, j, option)
  \/ \E i \in Assessments, text \in Texts : InputObservation(i, text)
  \/ \E i \in Assessments : SaveObservation(i)
  \/ \E k \in 1..MaxRequests : Fulfil(k)
  \/ \E k \in 1..MaxRequests : Reject(k)

SpecNet == InitNet /\ [][NextNet]_vars

\* ------------------------------------------------------------------ claims
\* The assessment whose id is `id`.
AssessmentOf(id) ==
  requirement_assessments[CHOOSE i \in Assessments : requirement_assessments[i].id = id]

\* C1 as stated: after update(a, f, v) without a question, a[f] equals v,
\* whatever a[f] held before the call.
C1_UpdateAssignsField ==
  last.op = "update" => AssessmentOf(last.ra)[last.field] = last.arg

\* C1, amended: update(a, f, v) without a question assigns nothing to a: when
\* it returns a[f] holds what it held before the call (the click and save
\* handlers assign a[f] themselves before they call update), and the body
\* { id: a.id, [f]: v } has been handed to fetch.
C1_UpdateLeavesField ==
  last.op = "update" =>
    /\ AssessmentOf(last.ra)[last.field] = last.before
    /\ requests # <<>>
    /\ Last(requests) = [id |-> last.ra] @@ (last.field :> last.arg)

\* A call update(a, 'status', 'done') on an assessment whose status is not done.
C1_Witness ==
  /\ last.op = "update" /\ last.field = "status" /\ last.arg = "done"
  /\ last.before # "done"
  /\ Last(requests) = [id |-> last.ra, status |-> "done"]

\* C2: after update(a, 'answer', X, q) with q.urn the urn of question j of a,
\* the answer of question j is X, every other question, every other field of a
\* and every other assessment are unchanged, and the request issued by the call
\* carries the whole answer bundle as it stands after the mutation.
C2_AnswerBundle ==
  [][last'.op = "updateq" =>
       \A i \in Assessments :
         requirement_assessments[i].id = last'.ra =>
           \A j \in DOMAIN requirement_assessments[i].answer.questions :
             requirement_assessments[i].answer.questions[j].urn = last'.field =>
               /\ requirement_assessments'[i].answer.questions[j].answer = last'.arg
               /\ requirement_assessments' =
                    [requirement_assessments EXCEPT
                       ![i].answer.questions[j].answer = last'.arg]
               /\ requests' =
                    Append(requests, [id |-> requirement_assessments[i].id,
                                      answer |-> requirement_assessments'[i].answer])
     ]_vars

\* update(r1, 'answer', 'note', q) for the second question: the payload is the
\* bundle, whose first question keeps its answer.
C2_Witness ==
  /\ last.op = "updateq" /\ last.ra = "r1" /\ last.field = "u2" /\ last.arg = "note"
  /\ requirement_assessments[1].answer.questions[2].answer = "note"
  /\ requirement_assessments[1].answer.questions[1].answer = "yes"
  /\ Last(requests) = [id |-> "r1", answer |-> requirement_assessments[1].answer]

\* The default a click handler resets its field to.
DefaultOf(op) ==
  CASE op = "status" -> "to_do" [] op = "result" -> "not_assessed" [] op = "answer" -> Null

\* The value of the field a click handler is bound to.
ClickedField(op, id, field) ==
  CASE op = "status" -> AssessmentOf(id).status
    [] op = "result" -> AssessmentOf(id).result
    [] op = "answer" ->
         LET questions == AssessmentOf(id).answer.questions
         IN questions[CHOOSE j \in DOMAIN questions : questions[j].urn = field].answer

\* The value the request of a click handler carries for its field.
ClickedSent(op, id, field, request) ==
  CASE op = "status" -> request.status
    [] op = "result" -> request.result
    [] op = "answer" ->
         LET questions == request.answer.questions
         IN questions[CHOOSE j \in DOMAIN questions : questions[j].urn = field].answer

IsClick(op) == op \in {"status", "result", "answer"}

\* C3 as stated: after a click on an option of a single-select field the field
\* holds its default if and only if the clicked option was the current value.
C3_DefaultIffSame ==
  IsClick(last.op) =>
    (ClickedField(last.op, last.ra, last.field) = DefaultOf(last.op)
       <=> last.arg = last.before)

\* C3, amended: the next value is the field's default if the clicked option
\* equals the current value and the clicked option otherwise (which is the
\* default too when the default option itself is clicked); the handler stores
\* that value in local state and passes the same value to update.
C3_NextValue ==
  IsClick(last.op) =>
    LET next == IF last.arg = last.before THEN DefaultOf(last.op) ELSE last.arg
    IN /\ ClickedField(last.op, last.ra, last.field) = next
       /\ requests # <<>>
       /\ Last(requests).id = last.ra
       /\ ClickedSent(last.op, last.ra, last.field, Last(requests)) = next

\* A click on the option that is current: the status goes back to to_do.
C3_Witness ==
  /\ last.op = "status" /\ last.arg = "done" /\ last.before = "done"
  /\ AssessmentOf(last.ra).status = "to_do"
  /\ Last(requests) = [id |-> last.ra, status |-> "to_do"]

\* The step is the second of two clicks in a row on one option of one field.
SecondClick ==
  /\ IsClick(last.op)
  /\ last'.op = last.op /\ last'.ra = last.ra /\ last'.field = last.field
  /\ last'.arg = last.arg

\* C4 as stated: whatever the current value, two clicks in a row on the same
\* option leave the field at its default.
C4_TwiceIsDefault ==
  [][SecondClick =>
       ClickedField(last.op, last.ra, last.field)' = DefaultOf(last.op)]_vars

\* C4, amended: two clicks in a row on the same option leave the field at its
\* default when the option was not the current value before the first click
\* (or is the default option); when it was, the first click resets the field
\* and the second selects the option again.
C4_TwiceToggles ==
  [][SecondClick =>
       ClickedField(last.op, last.ra, last.field)' =
         IF last.before = last.arg /\ last.arg # DefaultOf(last.op)
           THEN last.arg ELSE DefaultOf(last.op)]_vars

\* Two status clicks on `done`: the first request selected it, the second
\* reset the status to to_do.
C4_Witness ==
  /\ Len(requests) = 2
  /\ requests[1] = [id |-> "r1", status |-> "done"]
  /\ requests[2] = [id |-> "r1", status |-> "to_do"]
  /\ last.op = "status" /\ last.ra = "r1" /\ last.arg = "done" /\ last.before = "done"
  /\ requirement_assessments[1].status = "to_do"

\* C8: the initial questionnaireMode is true when questionnaireOnly is set,
\* else false when assessmentOnly is set, else true exactly for a third-party
\* viewer.
C8_InitialMode ==
  last.op = "init" =>
    /\ questionnaireOnly => questionnaireMode
    /\ ~questionnaireOnly /\ assessmentOnly => ~questionnaireMode
    /\ ~questionnaireOnly /\ ~assessmentOnly => (questionnaireMode <=> is_third_party)

\* Both overrides set: questionnaireOnly wins.
C8_Witness ==
  /\ last.op = "init" /\ questionnaireOnly /\ assessmentOnly /\ ~is_third_party
  /\ questionnaireMode

\* The record title reads: the requirement of the index, or the assessment
\* itself when the index has no entry for its requirement identifier.
DefinitionOf(ra) ==
  IF \E k \in DOMAIN requirements : requirements[k].id = ra.requirement
    THEN LET r == requirements[CHOOSE k \in DOMAIN requirements :
                                  requirements[k].id = ra.requirement]
         IN [short |-> r.display_short, long |-> r.name]
    ELSE [short |-> ra.display_short, long |-> ra.name]

\* C9: every rendered title is the short display name of the looked-up record
\* when it is set (a non-empty text), otherwise its long name when it is set,
\* otherwise the empty string (title has no failing branch: a record is always
\* found, and every branch yields a text).
C9_Title ==
  \A i \in Assessments :
    titles[i] # Undefined =>
      LET d == DefinitionOf(requirement_assessments[i])
      IN titles[i] = IF d.short \notin {Undefined, Null, ""} THEN d.short
                     ELSE IF d.long \notin {Undefined, Null} THEN d.long
                     ELSE ""

\* The assessment's requirement is not in the index and the assessment has a
\* short name of its own: that is the title.
C9_Witness ==
  /\ requirement_assessments[1].requirement = "q9"
  /\ requirement_assessments[1].display_short = "A.1"
  /\ requirement_assessments[1].name = "Access control"
  /\ titles[1] = "A.1"

\* The record the merge builds for the evidence the step receives.
CreatedRecord == [str |-> "Policy.pdf", id |-> NewEvidenceId(nCreated + 1)]

AssessmentIds == {requirement_assessments[i].id : i \in Assessments}
RequirementIds == {requirements[k].id : k \in DOMAIN requirements}

\* C5: a created evidence received while shallow is true, whose
\* requirements[0] is the identifier of an assessment, is appended as
\* {str: name, id} at the end of that assessment's evidence collection, every
\* other assessment's collection is unchanged and the pending slot is cleared.
C5_MergeAppends ==
  [][\A list \in RequirementLists, i \in Assessments :
       (/\ shallow
        /\ First(list) = requirement_assessments[i].id
        /\ ReceiveCreatedEvidence(list))
       => /\ requirement_assessments'[i].evidences =
               Append(requirement_assessments[i].evidences, CreatedRecord)
          /\ \A h \in Assessments \ {i} :
               requirement_assessments'[h].evidences = requirement_assessments[h].evidences
          /\ createdEvidence' = <<>>
     ]_vars

\* C6: a created evidence received while shallow is true, whose
\* requirements[0] is the identifier of no record of the page, changes no
\* evidence collection, leaves the counter alone and raises no error.
C6_MissIsSilent ==
  [][\A list \in RequirementLists :
       (/\ shallow
        /\ First(list) \notin AssessmentIds \cup RequirementIds
        /\ ReceiveCreatedEvidence(list))
       => /\ requirement_assessments' = requirement_assessments
          /\ requirements' = requirements
          /\ addedEvidence' = addedEvidence
          /\ thrown' = thrown
     ]_vars

\* C7: once the removal of evidence e has run, no requirement assessment's
\* evidence collection contains an entry whose id is e.
C7_RemovedEverywhere ==
  last.op = "delete" =>
    \A i \in Assessments :
      \A k \in DOMAIN requirement_assessments[i].evidences :
        requirement_assessments[i].evidences[k].id # last.ev

\* C10: every merge that runs to its end changes the value of addedEvidence,
\* the second and later ones as well as the first.
C10_CounterChanges ==
  [][\A list \in RequirementLists :
       (/\ shallow
        /\ \E k \in DOMAIN requirements : requirements[k].id = First(list)
        /\ ReceiveCreatedEvidence(list))
       => addedEvidence' # addedEvidence
     ]_vars

\* The handlers that edit a field and persist it.
IsEdit(op) == op \in {"status", "result", "answer", "change", "save"}

\* The field of the request an edit handler issues.
EditField(op) ==
  CASE op \in {"answer", "change"} -> "answer"
    [] op = "save" -> "observation"
    [] OTHER -> op

\* C11: every edit (status click, result click, answer click or change,
\* observation save) hands exactly one request to fetch, after the requests of
\* all earlier edits, and its body is the assessment's id with the value local
\* state holds for the edited field when the handler has run; a step that is
\* no edit issues no request.
C11_OneRequestPerEdit ==
  [][IF IsEdit(last'.op)
       THEN \E i \in Assessments :
              /\ requirement_assessments[i].id = last'.ra
              /\ requests' =
                   Append(requests,
                          FormData(last'.ra, EditField(last'.op),
                                   requirement_assessments'[i][EditField(last'.op)]))
       ELSE requests' = requests
     ]_vars

\* A status click followed by an observation save: two requests, in that
\* order, the second carrying the text the textarea holds.
C11_Witness ==
  /\ Len(requests) = 2
  /\ requests[1] = [id |-> "r1", status |-> "done"]
  /\ requests[2] = [id |-> "r1", observation |-> "note"]
  /\ last.op = "save" /\ last.ra = "r1"
  /\ requirement_assessments[1].observation = "note"
  /\ requirement_assessments[1].status = "done"

\* The remote value of field f of assessment i is not the local one.
Diverged(i, f) == net.remote[i][f] # requirement_assessments[i][f]

\* A request for field f of assessment i has not settled yet.
PendingFor(i, f) ==
  \E k \in Pending :
    requests[k].id = requirement_assessments[i].id /\ FieldOf(requests[k]) = f

\* The field of an assessment that a handler of the user writes or persists.
UserEditOf(op) ==
  CASE op \in {"status", "result"} -> op
    [] op \in {"answer", "change"} -> "answer"
    [] op \in {"input", "save", "cancel"} -> "observation"
    [] OTHER -> "none"

\* C12: requests settle in any order and fail independently, and the page
\* runs no code when one settles; once the remote value of a field differs
\* from the local one and no request for that field is pending, the two keep
\* differing through every step that is not a new edit of that field by the
\* user (the settling of other requests, edits of other fields or assessments).
C12_DivergenceStays ==
  [][\A i \in Assessments, f \in Fields :
       (/\ Diverged(i, f)
        /\ ~PendingFor(i, f)
        /\ ~(last'.ra = requirement_assessments[i].id /\ UserEditOf(last'.op) = f))
       => Diverged(i, f)'
     ]_vars

\* Two status clicks on r1, done and then in_review; the remote store
\* processed the second request first and the first one last: both have been
\* fulfilled, the store holds done and the page shows in_review.
C12_Witness ==
  /\ Len(requests) = 2
  /\ requests[1] = [id |-> "r1", status |-> "done"]
  /\ requests[2] = [id |-> "r1", status |-> "in_review"]
  /\ net.settled = {[k |-> 1, ok |-> TRUE], [k |-> 2, ok |-> TRUE]}
  /\ last.op = "fulfil" /\ last.ev = 1
  /\ Pending = {}
  /\ net.remote[1].status = "done"
  /\ requirement_assessments[1].status = "in_review"

\* C13: when a request is rejected nothing changes on the page: every field
\* of every assessment keeps the value it had, no request is issued and no
\* error is raised; requests are issued by edit handlers only, one per edit.
C13_RejectChangesNothing ==
  [][/\ last'.op = "reject" =>
          /\ requirement_assessments' = requirement_assessments
          /\ requests' = requests
          /\ thrown' = thrown /\ ~thrown'
          /\ modalStore' = modalStore
          /\ questionnaireMode' = questionnaireMode
     /\ requests' # requests =>
          IsEdit(last'.op) /\ Len(requests') = Len(requests) + 1
     ]_vars

\* The only request, a status click on done, has been rejected: the page
\* still shows done, the remote store still holds to_do.
C13_Witness ==
  /\ last.op = "reject" /\ last.ra = "r1" /\ last.field = "status"
  /\ requests = <<[id |-> "r1", status |-> "done"]>>
  /\ net.settled = {[k |-> 1, ok |-> FALSE]}
  /\ requirement_assessments[1].status = "done"
  /\ net.remote[1].status = "to_do"
  /\ ~thrown

\* The delete-confirmation dialog is open: the user has neither accepted nor
\* cancelled.
DeleteDialogOpen ==
  modalStore # <<>> /\ Head(modalStore).ref = "DeleteConfirmModal"

\* C14: while the delete-confirmation dialog for evidence e is open, e is
\* already gone from the local evidence collections: no requirement
\* assessment's collection (and no collection of data.requirements) holds an
\* entry whose id is e.
C14_GoneWhileDialogOpen ==
  DeleteDialogOpen =>
    /\ \A i \in Assessments :
         \A k \in DOMAIN requirement_assessments[i].evidences :
           requirement_assessments[i].evidences[k].id # Head(modalStore).id
    /\ \A h \in DOMAIN requirements :
         \A k \in DOMAIN requirements[h].evidences :
           requirements[h].evidences[k].id # Head(modalStore).id

\* No two entries of an evidence collection have the same id.
NoDuplicates(evidences) ==
  \A a, b \in DOMAIN evidences : evidences[a].id = evidences[b].id => a = b

\* C15: in every reachable state, after any merges and removals, no evidence
\* collection of the page (those of data.requirement_assessments, which the
\* page renders, and those of data.requirements, which the merge and the
\* removal write) holds two entries with the same evidence id.
C15_UniqueEvidenceIds ==
  /\ \A i \in Assessments : NoDuplicates(requirement_assessments[i].evidences)
  /\ \A k \in DOMAIN requirements : NoDuplicates(requirements[k].evidences)

\* Two evidences have been created and merged into the collection of q1, which
\* now holds four entries with four ids.
C15_Witness ==
  /\ shallow /\ nCreated = 2 /\ last.op = "created" /\ ~thrown
  /\ Len(requirements[1].evidences) = 4
  /\ {requirements[1].evidences[k].id : k \in 1..4} = 1..4

\* {#if observationBuffer !== observation} inside the editable observation
\* block: the save and cancel buttons of assessment i are rendered.
AffordanceRendered(i) ==
  /\ ObservationEditable(i)
  /\ requirement_assessments[i].observationBuffer # requirement_assessments[i].observation

\* C16: at the initial load observationBuffer equals observation; typing
\* changes observation only, so the two differ exactly when the text typed is
\* not the buffered one; the save button issues one request carrying the
\* current observation and sets observationBuffer to it; the cancel button sets
\* observation to observationBuffer and issues no request; after either button
\* the two are equal and the save/cancel buttons are not rendered.
C16_BufferTracksSaved ==
  /\ [](last.op = "init" =>
          \A i \in Assessments :
            requirement_assessments[i].observationBuffer =
              requirement_assessments[i].observation)
  /\ [][\A i \in Assessments :
          requirement_assessments[i].id = last'.ra =>
            LET before == requirement_assessments[i]
                after == requirement_assessments'[i]
            IN /\ last'.op = "input" =>
                    /\ after = [before EXCEPT !.observation = last'.arg]
                    /\ requests' = requests
                    /\ AffordanceRendered(i)' <=> (last'.arg # before.observationBuffer)
               /\ last'.op = "save" =>
                    /\ AffordanceRendered(i)
                    /\ requests' =
                         Append(requests,
                                [id |-> before.id, observation |-> before.observation])
                    /\ after = [before EXCEPT !.observationBuffer = before.observation]
                    /\ ~AffordanceRendered(i)'
               /\ last'.op = "cancel" =>
                    /\ AffordanceRendered(i)
                    /\ requests' = requests
                    /\ after = [before EXCEPT !.observation = before.observationBuffer]
                    /\ ~AffordanceRendered(i)'
       ]_vars

\* r1: "note" typed and saved, then the text cleared and the edit cancelled:
\* one request, and observation is back to the saved "note".
C16_Witness ==
  /\ last.op = "cancel" /\ last.ra = "r1" /\ last.before = ""
  /\ requests = <<[id |-> "r1", observation |-> "note"]>>
  /\ requirement_assessments[1].observation = "note"
  /\ requirement_assessments[1].observationBuffer = "note"
  /\ ~AffordanceRendered(1)

\* C17: every activation of the mode switch sets questionnaireMode to its
\* negation, whatever the overrides and the third-party flag; no other step
\* changes the mode, and the inputs of the initial derivation never change, so
\* the precedence is not applied again.
C17_SwitchFlips ==
  [][/\ last'.op = "toggle" => questionnaireMode' = ~questionnaireMode
     /\ last'.op # "toggle" => questionnaireMode' = questionnaireMode
     /\ props' = props
     ]_vars

\* Both overrides are set and the switch has been used: the mode is false,
\* which the precedence (questionnaireOnly first) would never give.
C17_Witness ==
  /\ questionnaireOnly /\ assessmentOnly
  /\ last.op = "toggle"
  /\ ~questionnaireMode
  /\ InitialMode(questionnaireOnly, assessmentOnly, is_third_party)

\* C18: every assessment's status is one of the status options and its result
\* one of the result options, and every request that carries a status or a
\* result carries one of the options.
C18_ValuesInEnumerations ==
  /\ \A i \in Assessments :
       /\ requirement_assessments[i].status \in Range(status_options)
       /\ requirement_assessments[i].result \in Range(result_options)
  /\ \A k \in DOMAIN requests :
       /\ "status" \in DOMAIN requests[k] => requests[k].status \in Range(status_options)
       /\ "result" \in DOMAIN requests[k] => requests[k].result \in Range(result_options)

\* A click on the result that is current: r2 goes back to not_assessed, and
\* the request carries not_assessed.
C18_Witness ==
  /\ last.op = "result" /\ last.ra = "r2"
  /\ last.arg = "compliant" /\ last.before = "compliant"
  /\ requirement_assessments[2].result = "not_assessed"
  /\ Last(requests) = [id |-> "r2", result |-> "not_assessed"]

\* C19: the mode switch is rendered exactly when the two overrides agree (both
\* set or both unset) and is used only then; with questionnaireOnly alone the
\* mode is true in every reachable state, no status or result click happens,
\* every status and result is the loaded one and no request carries either;
\* with assessmentOnly alone the mode is false in every reachable state.
C19_SwitchOnlyWhenOverridesAgree ==
  /\ SwitchRendered <=> (questionnaireOnly <=> assessmentOnly)
  /\ last.op = "toggle" => (questionnaireOnly <=> assessmentOnly)
  /\ (questionnaireOnly /\ ~assessmentOnly) =>
       /\ questionnaireMode
       /\ last.op \notin {"status", "result"}
       /\ \A i \in Assessments :
            /\ requirement_assessments[i].status = InitialAssessments[i].status
            /\ requirement_assessments[i].result = InitialAssessments[i].result
       /\ \A k \in DOMAIN requests : FieldOf(requests[k]) \notin {"status", "result"}
  /\ (assessmentOnly /\ ~questionnaireOnly) => ~questionnaireMode

\* A questionnaire-only view in which two answers have been given: the mode
\* is still true and both requests carry answers.
C19_Witness ==
  /\ questionnaireOnly /\ ~assessmentOnly
  /\ questionnaireMode
  /\ last.op = "answer"
  /\ Len(requests) = 2
  /\ \A k \in DOMAIN requests : FieldOf(requests[k]) = "answer"

====
